---- MODULE Spec2Model ----
(***************************************************************************)
(* A model of the rust_goap planning engine: typed values, world states,   *)
(* assertions, mutations, effects, actions, goals, and the A* search that  *)
(* make_plan runs over them.                                               *)
(*                                                                         *)
(* Encoding of the data model                                              *)
(*   Value       [tag, v]; tag is "Bool", "I64" or "F64".  A Bool holds 0  *)
(*               (false) or 1 (true), so false < true as in Rust.  An F64  *)
(*               holds a count of halves (3 stands for 1.5), so that the   *)
(*               truncation of a float distance is visible.                *)
(*   WorldState  a function from the present keys to Values (BTreeMap).    *)
(*   Assert      [op, value].                                              *)
(*   Mutation    [kind, key, value], or [kind, key] for Delete.            *)
(*   Effect      [mutations, cost].                                        *)
(*   Action      [key, preconditions, effect]; effect is <<>> for None and *)
(*               <<e>> for Some(e).                                        *)
(*   Goal        a function from the required keys to Asserts (BTreeMap).  *)
(*   Node        [kind |-> "State", state] or                              *)
(*               [kind |-> "Effect", key, effect, state].                  *)
(***************************************************************************)
EXTENDS Integers, Sequences, FiniteSets, TLC

VARIABLES start, actions, goal, parents, to_see, pc, result, call

vars == <<start, actions, goal, parents, to_see, pc, result, call>>

(***************************************************************************)
(* Bounds of the model.                                                    *)
(***************************************************************************)
\* The longest action list handed to make_plan.
MaxActions == 4

\* The states of a search hold integers within -MaxInt..MaxInt (floats
\* within the same range, counted in halves); a search that generates a
\* state outside the range is abandoned.
MaxInt == 4

\* The longest action sequence the cheapest-plan comparison looks at.
MaxDepth == 3

\* The longest precondition list of the actions check_preconditions is
\* applied to on its own.
MaxPre == 2

\* The longest action list of the searches whose termination is checked.
MaxLiveActions == 2

\* The width in bits of the machine integers of the model: an i64 is
\* modelled as a signed integer of IntBits bits, wide enough for every
\* value a search of the model holds.
IntBits == 9

\* The longest list of mutations of an Effect that Effect::apply_to is
\* applied to on its own.
MaxMutations == 2

(***************************************************************************)
(* Value (src/basic/value.rs)                                              *)
(***************************************************************************)
Bool(b) == [tag |-> "Bool", v |-> IF b THEN 1 ELSE 0]

I64(n) == [tag |-> "I64", v |-> n]

\* F64(h) is the float h/2.
F64(h) == [tag |-> "F64", v |-> h]

\* The discriminant of a variant, in declaration order.
Discriminant(val) ==
    CASE val.tag = "Bool" -> 0
      [] val.tag = "I64" -> 1
      [] val.tag = "F64" -> 2

\* impl PartialEq for Value: equal tags and equal payloads.
ValueEq(a, b) == a.tag = b.tag /\ a.v = b.v

\* #[derive(PartialOrd)]: values of different variants are ordered by their
\* discriminants, values of one variant by their payloads.
ValueLt(a, b) ==
    IF a.tag = b.tag THEN a.v < b.v ELSE Discriminant(a) < Discriminant(b)

ValueLe(a, b) ==
    IF a.tag = b.tag THEN a.v <= b.v ELSE Discriminant(a) < Discriminant(b)

Abs(n) == IF n < 0 THEN -n ELSE n

\* i64::MIN and i64::MAX.
I64Min == -(2 ^ (IntBits - 1))

I64Max == 2 ^ (IntBits - 1) - 1

\* The two's complement value an integer operation leaves when it is not
\* checked for overflow.
Wrap(x) == ((x - I64Min) % (2 ^ IntBits)) + I64Min

\* Value::distance panics when the variants differ.
distance_panics(a, b) == a.tag # b.tag

\* lhs - rhs overflows: a panic in a build with overflow checks, a wrapped
\* difference in a build without.
distance_overflows(a, b) ==
    a.tag = "I64" /\ b.tag = "I64" /\ a.v - b.v \notin I64Min..I64Max

\* Value::distance on values of one variant.
distance(a, b) ==
    CASE a.tag = "Bool" -> IF a.v = b.v THEN 0 ELSE 1
      [] a.tag = "I64" -> Abs(Wrap(a.v - b.v))
      [] a.tag = "F64" -> Abs(a.v - b.v) \div 2

\* Whether a value is within the modelled range.
InRange(val) ==
    CASE val.tag = "Bool" -> TRUE
      [] val.tag = "I64" -> val.v \in -MaxInt..MaxInt
      [] val.tag = "F64" -> val.v \in -(2 * MaxInt)..(2 * MaxInt)

\* AddAssign / SubAssign for Value: unimplemented!() unless both are I64
\* or both are F64.
assign_panics(cur, rhs) == cur.tag = "Bool" \/ cur.tag # rhs.tag

\* AddAssign leaving the sum as an F64.
add_assign_f64(cur, rhs) == [tag |-> "F64", v |-> 2 * (cur.v + rhs.v)]

add_assign(cur, rhs) == [tag |-> cur.tag, v |-> cur.v + rhs.v]

\* SubAssign adding the right-hand side.
sub_assign_add(cur, rhs) == [tag |-> cur.tag, v |-> cur.v + rhs.v]

sub_assign(cur, rhs) == [tag |-> cur.tag, v |-> cur.v - rhs.v]

(***************************************************************************)
(* Assert (src/basic/assert.rs)                                            *)
(***************************************************************************)
Equals(val) == [op |-> "Equals", value |-> val]

NotEquals(val) == [op |-> "NotEquals", value |-> val]

GreaterThan(val) == [op |-> "GreaterThan", value |-> val]

GreaterThanEquals(val) == [op |-> "GreaterThanEquals", value |-> val]

LessThan(val) == [op |-> "LessThan", value |-> val]

LessThanEquals(val) == [op |-> "LessThanEquals", value |-> val]

\* compare_values(comparison, value): value OP bound.
compare_values(comparison, val) ==
    CASE comparison.op = "Equals" -> ValueEq(val, comparison.value)
      [] comparison.op = "NotEquals" -> ~ValueEq(val, comparison.value)
      [] comparison.op = "GreaterThanEquals" -> ValueLe(comparison.value, val)
      [] comparison.op = "LessThan" -> ValueLt(val, comparison.value)
      [] comparison.op = "GreaterThan" -> ValueLt(comparison.value, val)
      [] comparison.op = "LessThanEquals" -> ValueLe(val, comparison.value)

(***************************************************************************)
(* WorldState and Mutation (src/world_state.rs, src/basic/mutation.rs)     *)
(***************************************************************************)
EmptyState == [k \in {} |-> Bool(FALSE)]

\* BTreeMap::insert keeping the value of a key that is present.
Insert_keep(ws, key, val) ==
    [k \in DOMAIN ws \cup {key} |-> IF k \in DOMAIN ws THEN ws[k] ELSE val]

\* BTreeMap::insert
Insert(ws, key, val) ==
    [k \in DOMAIN ws \cup {key} |-> IF k = key THEN val ELSE ws[k]]

\* BTreeMap::remove
Remove(ws, key) == [k \in DOMAIN ws \ {key} |-> ws[k]]

Set(key, val) == [kind |-> "Set", key |-> key, value |-> val]

Delete(key) == [kind |-> "Delete", key |-> key]

Increment(key, val) == [kind |-> "Increment", key |-> key, value |-> val]

Decrement(key, val) == [kind |-> "Decrement", key |-> key, value |-> val]

\* The outcome of a computation that may panic: status is "ok" or "panic".
Ok(x) == [status |-> "ok", val |-> x]

Panic(x) == [status |-> "panic", val |-> x]

\* apply_mutator with Increment and Decrement inserting a missing variable
\* (the entry API's or_insert in place of get_mut).
apply_mutator_insert(ws, m) ==
    CASE m.kind = "Set" -> Ok(Insert(ws, m.key, m.value))
      [] m.kind = "Delete" -> Ok(Remove(ws, m.key))
      [] m.kind = "Increment" ->
            IF m.key \notin DOMAIN ws THEN Ok(Insert(ws, m.key, m.value))
            ELSE IF assign_panics(ws[m.key], m.value) THEN Panic(ws)
            ELSE Ok(Insert(ws, m.key, add_assign(ws[m.key], m.value)))
      [] m.kind = "Decrement" ->
            IF m.key \notin DOMAIN ws THEN Ok(Insert(ws, m.key, m.value))
            ELSE IF assign_panics(ws[m.key], m.value) THEN Panic(ws)
            ELSE Ok(Insert(ws, m.key, sub_assign(ws[m.key], m.value)))

\* apply_mutator(world_state, mutator)
apply_mutator(ws, m) ==
    CASE m.kind = "Set" -> Ok(Insert(ws, m.key, m.value))
      [] m.kind = "Delete" -> Ok(Remove(ws, m.key))
      [] m.kind = "Increment" ->
            IF m.key \notin DOMAIN ws THEN Ok(ws)
            ELSE IF assign_panics(ws[m.key], m.value) THEN Panic(ws)
            ELSE Ok(Insert(ws, m.key, add_assign(ws[m.key], m.value)))
      [] m.kind = "Decrement" ->
            IF m.key \notin DOMAIN ws THEN Ok(ws)
            ELSE IF assign_panics(ws[m.key], m.value) THEN Panic(ws)
            ELSE Ok(Insert(ws, m.key, sub_assign(ws[m.key], m.value)))

(***************************************************************************)
(* Effect (src/effect.rs)                                                  *)
(***************************************************************************)
RECURSIVE ApplyFrom_backwards(_, _, _)
\* The loop of Effect::apply_to over self.mutations.iter().rev().
ApplyFrom_backwards(mutations, ws, i) ==
    IF i > Len(mutations) THEN Ok(ws)
    ELSE LET r == apply_mutator(ws, mutations[Len(mutations) + 1 - i])
         IN  IF r.status = "ok"
             THEN ApplyFrom_backwards(mutations, r.val, i + 1)
             ELSE r

RECURSIVE ApplyFrom(_, _, _)
\* The loop of Effect::apply_to from mutation i on; it stops at the first
\* mutation that does not return.
ApplyFrom(mutations, ws, i) ==
    IF i > Len(mutations) THEN Ok(ws)
    ELSE LET r == apply_mutator(ws, mutations[i])
         IN  IF r.status = "ok" THEN ApplyFrom(mutations, r.val, i + 1) ELSE r

\* Effect::apply_to(world_state)
apply_to(effect, ws) == ApplyFrom(effect.mutations, ws, 1)

(***************************************************************************)
(* Action (src/action.rs)                                                  *)
(***************************************************************************)
RECURSIVE CheckFrom(_, _, _)
\* Iterator::all over the preconditions from index i on: it stops at the
\* first precondition that is false, and panics at a missing key.
CheckFrom(pre, ws, i) ==
    IF i > Len(pre) THEN "true"
    ELSE IF pre[i].key \notin DOMAIN ws THEN "panic"
    ELSE IF compare_values(pre[i].assert, ws[pre[i].key])
         THEN CheckFrom(pre, ws, i + 1)
         ELSE "false"

\* check_preconditions looking at the first precondition only.
check_preconditions_first(action, ws) ==
    IF action.preconditions = <<>> THEN "true"
    ELSE CheckFrom(<<action.preconditions[1]>>, ws, 1)

\* Action::check_preconditions(world_state): "true", "false" or "panic".
check_preconditions(action, ws) == CheckFrom(action.preconditions, ws, 1)

(***************************************************************************)
(* Goal (src/goal.rs)                                                      *)
(***************************************************************************)
EmptyGoal == [k \in {} |-> Equals(Bool(FALSE))]

\* is_satisfied_by with unwrap_or(true).
is_satisfied_by_vacuous(g, ws) ==
    \A k \in DOMAIN g :
        IF k \in DOMAIN ws THEN compare_values(g[k], ws[k]) ELSE TRUE

\* Goal::is_satisfied_by(world_state): get(key).map(compare).unwrap_or(false)
is_satisfied_by(g, ws) ==
    \A k \in DOMAIN g :
        IF k \in DOMAIN ws THEN compare_values(g[k], ws[k]) ELSE FALSE

(***************************************************************************)
(* WorldState::distance_to_goal (src/world_state.rs)                       *)
(***************************************************************************)
RECURSIVE SumOver(_, _, _)
\* Iterator::sum of the per-requirement distances over the keys in ks.
SumOver(ks, g, ws) ==
    IF ks = {} THEN 0
    ELSE LET k == CHOOSE x \in ks : TRUE
         IN  (IF k \in DOMAIN ws THEN distance(ws[k], g[k].value) ELSE 1)
             + SumOver(ks \ {k}, g, ws)

\* distance_to_goal panics when Value::distance does for a present key.
distance_to_goal_panics(ws, g) ==
    \E k \in DOMAIN g : k \in DOMAIN ws /\ distance_panics(ws[k], g[k].value)

\* u64::MAX, the greatest value of the sum.
U64Max == 2 ^ IntBits - 1

\* The arithmetic of distance_to_goal overflows: the subtraction of a
\* Value::distance, or the u64 sum of the distances.  It is a panic in a
\* build with overflow checks, a wrapped result in a build without.
distance_to_goal_overflows(ws, g) ==
    \/ \E k \in DOMAIN g :
           k \in DOMAIN ws /\ distance_overflows(ws[k], g[k].value)
    \/ SumOver(DOMAIN g, g, ws) > U64Max

\* WorldState::distance_to_goal(goal)
distance_to_goal(ws, g) == SumOver(DOMAIN g, g, ws) % (U64Max + 1)

(***************************************************************************)
(* Node (src/plan/node.rs)                                                 *)
(***************************************************************************)
StateNode(ws) == [kind |-> "State", state |-> ws]

EffectNode(key, effect, ws) ==
    [kind |-> "Effect", key |-> key, effect |-> effect, state |-> ws]

(***************************************************************************)
(* Planner (src/plan/planner.rs)                                           *)
(***************************************************************************)
\* heuristic(node, goal)
heuristic(node, g) == distance_to_goal(node.state, g)

heuristic_panics(node, g) == distance_to_goal_panics(node.state, g)

RECURSIVE MutateFrom_skip_last(_, _, _)
\* The loop over effect.mutations stopping one mutation early.
MutateFrom_skip_last(mutations, ws, i) ==
    IF i >= Len(mutations) THEN Ok(ws)
    ELSE LET r == apply_mutator(ws, mutations[i])
         IN  IF r.status = "ok"
             THEN MutateFrom_skip_last(mutations, r.val, i + 1)
             ELSE r

RECURSIVE MutateFrom(_, _, _)
\* The loop of successors over effect.mutations, from mutation i on.
MutateFrom(mutations, ws, i) ==
    IF i > Len(mutations) THEN Ok(ws)
    ELSE LET r == apply_mutator(ws, mutations[i])
         IN  IF r.status = "ok" THEN MutateFrom(mutations, r.val, i + 1) ELSE r

\* The transition cost taken as the default cost of an Effect.
edge_cost_default(effect) == 1

\* The transition cost successors pairs with a successor node.
edge_cost(effect) == effect.cost

\* The closure of successors' filter_map taking Effect::default() for an
\* action without an Effect.
successor_of_effectless(ws, action) ==
    LET holds == check_preconditions(action, ws)
    IN  IF holds = "panic" THEN Panic(<<>>)
        ELSE IF holds = "false" THEN Ok(<<>>)
        ELSE LET effect == IF action.effect = <<>>
                           THEN [mutations |-> <<>>, cost |-> 1]
                           ELSE action.effect[1]
                 r == MutateFrom(effect.mutations, ws, 1)
             IN  IF r.status = "panic" THEN Panic(<<>>)
                 ELSE Ok(<<[node |-> EffectNode(action.key, effect, r.val),
                            cost |-> edge_cost(effect)]>>)

\* The closure of successors' filter_map on one action: Ok(<<>>) when the
\* action is skipped, Ok(<<[node, cost]>>) when it yields a successor.
successor_of(ws, action) ==
    LET holds == check_preconditions(action, ws)
    IN  IF holds = "panic" THEN Panic(<<>>)
        ELSE IF holds = "false" \/ action.effect = <<>> THEN Ok(<<>>)
        ELSE LET effect == action.effect[1]
                 r == MutateFrom(effect.mutations, ws, 1)
                 new_effect == [mutations |-> effect.mutations,
                                cost |-> effect.cost]
             IN  IF r.status = "panic" THEN Panic(<<>>)
                 ELSE Ok(<<[node |-> EffectNode(action.key, new_effect, r.val),
                            cost |-> edge_cost(effect)]>>)

RECURSIVE SuccessorsFrom_skip_last(_, _, _)
\* successors leaving out the last action of the list.
SuccessorsFrom_skip_last(ws, acts, i) ==
    IF i >= Len(acts) THEN Ok(<<>>)
    ELSE LET r == successor_of(ws, acts[i])
         IN  IF r.status = "panic" THEN r
             ELSE LET rest == SuccessorsFrom_skip_last(ws, acts, i + 1)
                  IN  IF rest.status = "panic" THEN rest
                      ELSE Ok(r.val \o rest.val)

RECURSIVE SuccessorsFrom_reversed(_, _, _)
\* successors over actions.iter().rev(): the last action's transition first.
SuccessorsFrom_reversed(ws, acts, i) ==
    IF i > Len(acts) THEN Ok(<<>>)
    ELSE LET r == successor_of(ws, acts[i])
         IN  IF r.status = "panic" THEN r
             ELSE LET rest == SuccessorsFrom_reversed(ws, acts, i + 1)
                  IN  IF rest.status = "panic" THEN rest
                      ELSE Ok(rest.val \o r.val)

RECURSIVE SuccessorsFrom(_, _, _)
\* successors collected from action i on, in the order of the action list.
SuccessorsFrom(ws, acts, i) ==
    IF i > Len(acts) THEN Ok(<<>>)
    ELSE LET r == successor_of(ws, acts[i])
         IN  IF r.status = "panic" THEN r
             ELSE LET rest == SuccessorsFrom(ws, acts, i + 1)
                  IN  IF rest.status = "panic" THEN rest
                      ELSE Ok(r.val \o rest.val)

\* successors(node, actions).collect()
successors(node, acts) == SuccessorsFrom(node.state, acts, 1)

\* is_goal with a missing key counted as satisfied.
is_goal_vacuous(node, g) ==
    \A k \in DOMAIN g :
        IF k \notin DOMAIN node.state THEN TRUE
        ELSE compare_values(g[k], node.state[k])

\* is_goal false for a goal without requirements.
is_goal_nonempty(node, g) ==
    /\ DOMAIN g # {}
    /\ \A k \in DOMAIN g :
           IF k \notin DOMAIN node.state THEN FALSE
           ELSE compare_values(g[k], node.state[k])

\* is_goal(node, goal)
is_goal(node, g) ==
    \A k \in DOMAIN g :
        IF k \notin DOMAIN node.state THEN FALSE
        ELSE compare_values(g[k], node.state[k])

\* get_effects_from_plan(plan): the (action_key, effect, state) triples of
\* the Effect nodes, in order; State nodes are dropped.
get_effects_from_plan(plan) ==
    LET kept == SelectSeq(plan, LAMBDA node : node.kind = "Effect")
    IN  [i \in 1..Len(kept) |-> <<kept[i].key, kept[i].effect, kept[i].state>>]

(***************************************************************************)
(* pathfinding::directed::astar::astar, as make_plan_with_strategy calls   *)
(* it.  parents is the index map from a node to (parent index, cost), in   *)
(* insertion order; index 0 stands for "no parent".  to_see is the vector   *)
(* of the binary heap of (estimated_cost, cost, index) holders.            *)
(***************************************************************************)
\* The index of the first entry of parents whose node holds the state of
\* the node: nodes compared by their world states alone.
IndexOf_by_state(ps, node) ==
    IF \E i \in DOMAIN ps : ps[i].node.state = node.state
    THEN CHOOSE i \in DOMAIN ps :
             /\ ps[i].node.state = node.state
             /\ \A j \in DOMAIN ps : ps[j].node.state = node.state => i <= j
    ELSE 0

\* The index of a node in parents, 0 when the entry is vacant.
IndexOf(ps, node) ==
    IF \E i \in DOMAIN ps : ps[i].node = node
    THEN CHOOSE i \in DOMAIN ps : ps[i].node = node
    ELSE 0

\* Ord for SmallestCostHolder: the smaller estimated cost is the greater
\* holder; among equal estimates, the larger cost.
HolderGreater(x, y) ==
    \/ x.estimated_cost < y.estimated_cost
    \/ x.estimated_cost = y.estimated_cost /\ x.cost > y.cost

\* The element at position p of the heap's vector, counted from 0.
At(data, p) == data[p + 1]

Put(data, p, x) == [data EXCEPT ![p + 1] = x]

RECURSIVE SiftUp(_, _, _)
\* BinaryHeap::sift_up(0, pos) with elem in the hole at pos: the hole moves
\* up while elem is greater than the parent.
SiftUp(data, elem, pos) ==
    IF pos > 0 /\ HolderGreater(elem, At(data, (pos - 1) \div 2))
    THEN SiftUp(Put(data, pos, At(data, (pos - 1) \div 2)), elem,
                (pos - 1) \div 2)
    ELSE Put(data, pos, elem)

RECURSIVE SiftDownToBottom(_, _, _)
\* BinaryHeap::sift_down_to_bottom with elem in the hole at pos: the hole
\* moves down to a leaf along the greater children (the right one when the
\* two are equal), then elem is sifted up from there.
SiftDownToBottom(data, elem, pos) ==
    LET end == Len(data)
        child == 2 * pos + 1
    IN  IF child <= end - 2
        THEN LET c == IF HolderGreater(At(data, child), At(data, child + 1))
                      THEN child ELSE child + 1
             IN  SiftDownToBottom(Put(data, pos, At(data, c)), elem, c)
        ELSE IF child = end - 1
             THEN SiftUp(Put(data, pos, At(data, child)), elem, child)
             ELSE SiftUp(data, elem, pos)

\* BinaryHeap::push
HeapPush(data, x) == SiftUp(Append(data, x), x, Len(data))

\* BinaryHeap::pop leaving the heap as it is.
HeapPop_keep(data) == [item |-> data[1], heap |-> data]

\* BinaryHeap::pop on a heap that is not empty: the greatest holder, and
\* the heap without it.
HeapPop(data) ==
    LET last == data[Len(data)]
        rest == SubSeq(data, 1, Len(data) - 1)
    IN  IF rest = <<>> THEN [item |-> last, heap |-> <<>>]
        ELSE [item |-> rest[1], heap |-> SiftDownToBottom(rest, last, 0)]

RECURSIVE reverse_path_no_root(_, _)
\* reverse_path stopping below the root.
reverse_path_no_root(ps, i) ==
    IF ps[i].parent = 0 THEN <<>>
    ELSE Append(reverse_path_no_root(ps, ps[i].parent), ps[i].node)

RECURSIVE reverse_path(_, _)
\* reverse_path(parents, index): the nodes from the root to index.
reverse_path(ps, i) ==
    IF i = 0 THEN <<>> ELSE Append(reverse_path(ps, ps[i].parent), ps[i].node)

\* The turn of the loop replacing the entry of a successor that another
\* node reaches at the same cost as well (>= in place of >).
relax_on_ties(st, succ, index, cost, g) ==
    LET new_cost == cost + succ.cost
        j == IndexOf(st.parents, succ.node)
        h == heuristic(succ.node, g)
        n == IF j = 0 THEN Len(st.parents) + 1 ELSE j
        entry == [node |-> succ.node, parent |-> index, cost |-> new_cost]
        holder == [estimated_cost |-> new_cost + h, cost |-> new_cost,
                   index |-> n]
    IN  IF j # 0 /\ (j = index \/ ~(st.parents[j].cost >= new_cost)) THEN st
        ELSE IF heuristic_panics(succ.node, g)
             THEN [st EXCEPT !.status = "panic"]
        ELSE [status |-> "ok",
              parents |-> IF j = 0 THEN Append(st.parents, entry)
                          ELSE [st.parents EXCEPT ![j] = entry],
              to_see |-> HeapPush(st.to_see, holder)]

\* One turn of `for (successor, move_cost) in successors`.
relax(st, succ, index, cost, g) ==
    LET new_cost == cost + succ.cost
        j == IndexOf(st.parents, succ.node)
        h == heuristic(succ.node, g)
        n == IF j = 0 THEN Len(st.parents) + 1 ELSE j
        entry == [node |-> succ.node, parent |-> index, cost |-> new_cost]
        holder == [estimated_cost |-> new_cost + h, cost |-> new_cost,
                   index |-> n]
    IN  IF j # 0 /\ ~(st.parents[j].cost > new_cost) THEN st
        ELSE IF heuristic_panics(succ.node, g)
             THEN [st EXCEPT !.status = "panic"]
        ELSE [status |-> "ok",
              parents |-> IF j = 0 THEN Append(st.parents, entry)
                          ELSE [st.parents EXCEPT ![j] = entry],
              to_see |-> HeapPush(st.to_see, holder)]

RECURSIVE RelaxFrom(_, _, _, _, _, _)
\* The for loop over the collected successors, from successor i on.  The
\* state the loop has reached is bound to its value once (st), so that it
\* is not evaluated again at each of its uses.
RelaxFrom(reached, succs, i, index, cost, g) ==
    LET Rest(st) ==
            IF i > Len(succs) \/ st.status = "panic" THEN st
            ELSE RelaxFrom(relax(st, succs[i], index, cost, g), succs, i + 1,
                           index, cost, g)
    IN  CHOOSE after \in {Rest(st) : st \in {reached}} : TRUE

\* The body of the while loop for a popped holder that is neither a goal
\* nor outdated: the successors are collected (once, into succs), then
\* relaxed in order.
expand(ps, heap, holder, acts, g) ==
    LET Relaxed(succs) ==
            IF succs.status = "panic"
            THEN [status |-> "panic", parents |-> ps, to_see |-> heap]
            ELSE RelaxFrom([status |-> "ok", parents |-> ps, to_see |-> heap],
                           succs.val, 1, holder.index, holder.cost, g)
    IN  CHOOSE after \in {Relaxed(succs) :
                             succs \in {successors(ps[holder.index].node, acts)}} :
            TRUE

\* Whether every value of a world state is within the modelled range.
StateInRange(ws) == \A k \in DOMAIN ws : InRange(ws[k])

(***************************************************************************)
(* The inputs of make_plan: start states, goals and action lists over the  *)
(* keys "a" and "n".                                                       *)
(***************************************************************************)
State2(a, n) == [k \in {"a", "n"} |-> IF k = "a" THEN a ELSE n]

StartStates ==
    { EmptyState,
      State2(Bool(FALSE), I64(0)),
      State2(Bool(TRUE), I64(1)),
      State2(Bool(FALSE), F64(1)),
      State2(Bool(FALSE), I64(2)),
      [k \in {"n"} |-> I64(0)] }

Goal1(k, assert) == [x \in {k} |-> assert]

Goal2(a, n) == [k \in {"a", "n"} |-> IF k = "a" THEN a ELSE n]

Goals ==
    { EmptyGoal,
      Goal1("a", Equals(Bool(TRUE))),
      Goal1("n", Equals(I64(2))),
      Goal1("n", Equals(I64(3))),
      Goal2(Equals(Bool(TRUE)), GreaterThanEquals(I64(2))),
      Goal1("a", NotEquals(I64(0))),
      Goal1("n", GreaterThan(Bool(TRUE))),
      Goal1("n", LessThan(F64(3))),
      Goal2(NotEquals(Bool(TRUE)), Equals(I64(3))) }

Pre(k, assert) == [key |-> k, assert |-> assert]

Some(mutations, cost) == <<[mutations |-> mutations, cost |-> cost]>>

Act(key, pre, effect) ==
    [key |-> key, preconditions |-> pre, effect |-> effect]

\* The actions the lists are drawn from.
Pool ==
    << Act("set_a", <<>>, Some(<<Set("a", Bool(TRUE))>>, 1)),
       Act("inc", <<>>, Some(<<Increment("n", I64(1))>>, 1)),
       Act("jump", <<Pre("a", Equals(Bool(TRUE)))>>,
           Some(<<Set("n", I64(2))>>, 0)),
       Act("both", <<Pre("a", Equals(Bool(FALSE))), Pre("n", LessThan(I64(2)))>>,
           Some(<<Set("a", Bool(TRUE)), Increment("n", I64(2))>>, 2)),
       Act("drop", <<>>, Some(<<Delete("a"), Decrement("n", I64(1))>>, 0)),
       Act("dec", <<Pre("n", GreaterThan(I64(0)))>>,
           Some(<<Decrement("n", I64(1))>>, 1)),
       Act("clear", <<Pre("a", Equals(Bool(TRUE)))>>,
           Some(<<Set("a", Bool(FALSE)), Increment("n", I64(1))>>, 0)),
       Act("idle", <<Pre("n", GreaterThanEquals(I64(0)))>>, <<>>),
       Act("mix", <<Pre("n", GreaterThanEquals(Bool(FALSE)))>>,
           Some(<<Increment("a", I64(1))>>, 1)),
       Act("half", <<Pre("n", NotEquals(I64(0)))>>,
           Some(<<Increment("n", F64(1))>>, 1)) >>

RECURSIVE Ascending(_)
\* The members of a set of integers as an ascending sequence.
Ascending(S) ==
    IF S = {} THEN <<>>
    ELSE LET m == CHOOSE x \in S : \A y \in S : x <= y
         IN  <<m>> \o Ascending(S \ {m})

Reverse(seq) == [i \in 1..Len(seq) |-> seq[Len(seq) + 1 - i]]

\* The action lists: at most MaxActions actions of the pool, in the pool's
\* order or in the reverse order.
ActionLists ==
    LET picks == {Ascending(S) : S \in {T \in SUBSET DOMAIN Pool :
                                           Cardinality(T) <= MaxActions}}
        lists == {[i \in 1..Len(ix) |-> Pool[ix[i]]] : ix \in picks}
    IN  lists \cup {Reverse(l) : l \in lists}

\* The world state built by WorldState::new().set(k1, v1).set(k2, v2)...
StateOf(keys, vals) ==
    [k \in {keys[i] : i \in DOMAIN keys} |->
        vals[CHOOSE i \in DOMAIN keys : keys[i] = k]]

\* The inputs of examples/basic.rs.
BasicScenario ==
    [start |-> StateOf(<<"is_hungry", "has_food">>,
                       <<Bool(TRUE), Bool(FALSE)>>),
     actions |->
        << Act("buy_food", <<>>, Some(<<Set("has_food", Bool(TRUE))>>, 2)),
           Act("eat", <<Pre("has_food", Equals(Bool(TRUE)))>>,
               Some(<<Set("is_hungry", Bool(FALSE)),
                      Set("has_food", Bool(FALSE))>>, 1)) >>,
     goal |-> Goal1("is_hungry", Equals(Bool(FALSE)))]

\* The inputs of examples/long_plan.rs.
LongPlanScenario ==
    [start |-> StateOf(<<"energy", "hunger", "gold">>,
                       <<I64(30), I64(70), I64(0)>>),
     actions |->
        << Act("sleep", <<>>, Some(<<Increment("energy", I64(10))>>, 1)),
           Act("eat", <<Pre("energy", GreaterThanEquals(I64(26)))>>,
               Some(<<Decrement("hunger", I64(10))>>, 1)),
           Act("rob", <<Pre("hunger", LessThanEquals(I64(50))),
                        Pre("energy", GreaterThanEquals(I64(50)))>>,
               Some(<<Increment("gold", I64(1)),
                      Decrement("energy", I64(5)),
                      Increment("hunger", I64(5))>>, 1)) >>,
     goal |-> Goal1("gold", Equals(I64(7)))]

Scenarios == {BasicScenario, LongPlanScenario}

\* No function of the engine is being applied on its own.
NoCall == [op |-> "none"]

(***************************************************************************)
(* make_plan as a state machine: one step per turn of astar's while loop.  *)
(***************************************************************************)
None == <<>>

\* Whether the inputs of the call are those of an example program.
Running(scenario) ==
    start = scenario.start /\ actions = scenario.actions /\ goal = scenario.goal

Init ==
    /\ \/ /\ start \in StartStates
          /\ actions \in ActionLists
          /\ goal \in Goals
       \/ \E scenario \in Scenarios : Running(scenario)
    /\ parents = <<[node |-> StateNode(start), parent |-> 0, cost |-> 0]>>
    /\ to_see = <<[estimated_cost |-> 0, cost |-> 0, index |-> 1]>>
    /\ pc = "search"
    /\ result = None
    /\ call = NoCall

\* Whether a search that holds the state is followed further: the searches
\* of the example programs are followed to their end, the others within the
\* modelled range.
Followed(ws) == (\E scenario \in Scenarios : Running(scenario)) \/ StateInRange(ws)

\* The entries of parents whose states the search is not followed to.
NotFollowed(ps) == {i \in DOMAIN ps : ~Followed(ps[i].node.state)}

\* The popped node satisfies the goal: the path to it and the holder's cost
\* are returned.
Success ==
    /\ pc = "search"
    /\ to_see # <<>>
    /\ \E popped \in {HeapPop(to_see)} : \E holder \in {popped.item} :
           /\ is_goal(parents[holder.index].node, goal)
           /\ result' = <<[path |-> reverse_path(parents, holder.index),
                           cost |-> holder.cost]>>
           /\ to_see' = popped.heap
    /\ pc' = "done"
    /\ UNCHANGED <<start, actions, goal, parents, call>>

\* The popped holder is outdated (a cheaper way to its node was found).
Discard ==
    /\ pc = "search"
    /\ to_see # <<>>
    /\ \E popped \in {HeapPop(to_see)} : \E holder \in {popped.item} :
           /\ ~is_goal(parents[holder.index].node, goal)
           /\ holder.cost > parents[holder.index].cost
           /\ to_see' = popped.heap
    /\ UNCHANGED <<start, actions, goal, parents, pc, result, call>>

\* The popped node is expanded.
Expand ==
    /\ pc = "search"
    /\ to_see # <<>>
    /\ \E popped \in {HeapPop(to_see)} : \E holder \in {popped.item} :
           /\ ~is_goal(parents[holder.index].node, goal)
           /\ ~(holder.cost > parents[holder.index].cost)
           /\ \E r \in {expand(parents, popped.heap, holder, actions, goal)} :
                  /\ r.status = "ok"
                  /\ NotFollowed(r.parents) = {}
                  /\ parents' = r.parents
                  /\ to_see' = r.to_see
    /\ UNCHANGED <<start, actions, goal, pc, result, call>>

\* The expansion of the popped node panics: make_plan does not return.
Fail ==
    /\ pc = "search"
    /\ to_see # <<>>
    /\ \E popped \in {HeapPop(to_see)} : \E holder \in {popped.item} :
           /\ ~is_goal(parents[holder.index].node, goal)
           /\ ~(holder.cost > parents[holder.index].cost)
           /\ expand(parents, popped.heap, holder, actions, goal).status
                  = "panic"
           /\ to_see' = popped.heap
    /\ pc' = "panic"
    /\ UNCHANGED <<start, actions, goal, parents, result, call>>

\* The expansion generates a state the search is not followed to.
Abandon ==
    /\ pc = "search"
    /\ to_see # <<>>
    /\ \E popped \in {HeapPop(to_see)} : \E holder \in {popped.item} :
           /\ ~is_goal(parents[holder.index].node, goal)
           /\ ~(holder.cost > parents[holder.index].cost)
           /\ \E r \in {expand(parents, popped.heap, holder, actions, goal)} :
                  /\ r.status = "ok"
                  /\ NotFollowed(r.parents) # {}
           /\ to_see' = popped.heap
    /\ pc' = "range"
    /\ UNCHANGED <<start, actions, goal, parents, result, call>>

\* The heap is empty: astar returns None.
Exhausted ==
    /\ pc = "search"
    /\ to_see = <<>>
    /\ pc' = "done"
    /\ result' = None
    /\ UNCHANGED <<start, actions, goal, parents, to_see, call>>

Next == Success \/ Discard \/ Expand \/ Fail \/ Abandon \/ Exhausted

Spec == Init /\ [][Next]_vars

\* The inputs of the searches whose termination is checked: the action
\* lists of at most MaxLiveActions actions of the pool, in the pool's order.
LiveLists ==
    LET picks == {Ascending(S) : S \in {T \in SUBSET DOMAIN Pool :
                                           Cardinality(T) <= MaxLiveActions}}
    IN  {[i \in 1..Len(ix) |-> Pool[ix[i]]] : ix \in picks}

LiveInit ==
    /\ start \in {EmptyState, State2(Bool(FALSE), I64(0)),
                   State2(Bool(TRUE), I64(1)), State2(Bool(FALSE), I64(2))}
    /\ actions \in LiveLists
    /\ goal \in {Goal1("a", Equals(Bool(TRUE))), Goal1("n", Equals(I64(3))),
                  Goal2(Equals(Bool(TRUE)), GreaterThanEquals(I64(2))),
                  Goal2(NotEquals(Bool(TRUE)), Equals(I64(3)))}
    /\ parents = <<[node |-> StateNode(start), parent |-> 0, cost |-> 0]>>
    /\ to_see = <<[estimated_cost |-> 0, cost |-> 0, index |-> 1]>>
    /\ pc = "search"
    /\ result = None
    /\ call = NoCall

\* make_plan runs its search without interruption: the loop of astar takes
\* its next turn whenever it has one to take.
LiveSpec == LiveInit /\ [][Next]_vars /\ WF_vars(Next)

(***************************************************************************)
(* Properties of the plans make_plan returns.                              *)
(***************************************************************************)
Returned == pc = "done" /\ result # None

Path == result[1].path

TotalCost == result[1].cost

\* Whether a requirement or precondition holds in a state: the variable is
\* present and the assertion holds of its value.
Holds(key, assert, ws) == key \in DOMAIN ws /\ compare_values(assert, ws[key])

RECURSIVE CostFrom(_, _)
\* The sum of the Effect costs of the transition nodes from position i on.
CostFrom(path, i) ==
    IF i > Len(path) THEN 0
    ELSE (IF path[i].kind = "Effect" THEN path[i].effect.cost ELSE 0)
         + CostFrom(path, i + 1)

RECURSIVE Replay(_, _, _)
\* Effect::apply_to folded over extracted steps, from step i on.
Replay(ws, steps, i) ==
    IF i > Len(steps) THEN Ok(ws)
    ELSE LET r == apply_to(steps[i][2], ws)
         IN  IF r.status = "ok" THEN Replay(r.val, steps, i + 1) ELSE r

\* C1: the state of the last node of a returned path satisfies the goal:
\* every requirement's variable is present and its assertion holds.
C1_GoalSatisfied ==
    Returned =>
        \A k \in DOMAIN goal : Holds(k, goal[k], Path[Len(Path)].state)

\* A plan with at least one step was returned for a goal with requirements.
C1_Witness == Returned /\ Len(Path) >= 3 /\ DOMAIN goal # {}

\* C3: the returned total cost is the sum of the costs of the Effects held
\* by the transition nodes of the returned path.
C3_CostIsSum == Returned => TotalCost = CostFrom(Path, 1)

\* A plan was returned whose steps have different costs.
C3_Witness ==
    /\ Returned
    /\ \E i, j \in 2..Len(Path) : Path[i].effect.cost # Path[j].effect.cost

\* C4: in a returned path, Effect::apply_to of each node's effect on the
\* state of the node before it gives the node's state, and the extracted
\* effects folded over the start state give the final state.
C4_Replay ==
    Returned =>
        /\ \A i \in 2..Len(Path) :
               apply_to(Path[i].effect, Path[i - 1].state) = Ok(Path[i].state)
        /\ Replay(start, get_effects_from_plan(Path), 1)
               = Ok(Path[Len(Path)].state)

\* A plan was returned with a step of two mutations and a later step.
C4_Witness ==
    /\ Returned
    /\ \E i \in 2..(Len(Path) - 1) : Len(Path[i].effect.mutations) = 2

\* C6: every transition node of a returned path carries the key and Effect
\* of an action of the list whose preconditions hold in the state of the
\* node before it.
C6_PlanValid ==
    Returned =>
        \A i \in 2..Len(Path) :
            \E x \in DOMAIN actions :
                /\ actions[x].key = Path[i].key
                /\ actions[x].effect = <<Path[i].effect>>
                /\ \A p \in DOMAIN actions[x].preconditions :
                       Holds(actions[x].preconditions[p].key,
                             actions[x].preconditions[p].assert,
                             Path[i - 1].state)

\* A plan was returned with a step whose action has preconditions, from a
\* list with an action whose preconditions fail in the start state.
C6_Witness ==
    /\ Returned
    /\ \E i \in 2..Len(Path), x \in DOMAIN actions :
           /\ actions[x].key = Path[i].key
           /\ actions[x].preconditions # <<>>
    /\ \E x \in DOMAIN actions : check_preconditions(actions[x], start) = "false"

\* C7: a returned path starts with the State node of the start state, all
\* its later nodes are Effect nodes, and get_effects_from_plan yields their
\* (key, effect, state) triples in order: one step less than the path.
C7_PathShape ==
    Returned =>
        /\ Len(Path) >= 1
        /\ Path[1] = StateNode(start)
        /\ \A i \in 2..Len(Path) : Path[i].kind = "Effect"
        /\ Len(get_effects_from_plan(Path)) = Len(Path) - 1
        /\ \A i \in 2..Len(Path) :
               get_effects_from_plan(Path)[i - 1]
                   = <<Path[i].key, Path[i].effect, Path[i].state>>

\* A plan of at least two steps was returned.
C7_Witness == Returned /\ Len(Path) >= 3

\* Whether a state satisfies every requirement of the goal.
Satisfies(ws) == \A k \in DOMAIN goal : Holds(k, goal[k], ws)

\* Whether an action of the list is valid in a state: it has an Effect,
\* its preconditions hold, and its Effect applies.
Valid(x, ws) ==
    /\ actions[x].effect # <<>>
    /\ \A p \in DOMAIN actions[x].preconditions :
           Holds(actions[x].preconditions[p].key,
                 actions[x].preconditions[p].assert, ws)
    /\ apply_to(actions[x].effect[1], ws).status = "ok"

RECURSIVE ReachableUnder(_, _, _)
\* Whether at most depth valid actions of total cost at most limit lead
\* from ws to a state that satisfies the goal.
ReachableUnder(ws, limit, depth) ==
    \/ Satisfies(ws)
    \/ /\ depth > 0
       /\ \E x \in DOMAIN actions :
              /\ Valid(x, ws)
              /\ actions[x].effect[1].cost <= limit
              /\ ReachableUnder(apply_to(actions[x].effect[1], ws).val,
                                limit - actions[x].effect[1].cost, depth - 1)

\* C2: no valid action sequence reaches a goal-satisfying state with a
\* smaller sum of costs than the returned total cost.
C2_LowestCost ==
    Returned =>
        ~(TotalCost >= 1 /\ ReachableUnder(start, TotalCost - 1, MaxDepth))

\* The states one valid action away from a state of S, within the range.
StepStates(S) ==
    {t \in {apply_to(actions[sx[2]].effect[1], sx[1]).val :
                sx \in {y \in S \X DOMAIN actions : Valid(y[2], y[1])}} :
        StateInRange(t)}

RECURSIVE ReachFrom(_)
\* The states finitely many valid actions away from a state of S.
ReachFrom(S) ==
    LET T == S \cup StepStates(S) IN IF T = S THEN S ELSE ReachFrom(T)

\* C5: when make_plan returns None, no state reachable from start by valid
\* actions of the list satisfies the goal.
C5_NoneIsUnreachable ==
    (pc = "done" /\ result = None) =>
        \A ws \in ReachFrom({start}) : ~Satisfies(ws)

\* None was returned after a search through several reachable states.
C5_Witness ==
    /\ pc = "done"
    /\ result = None
    /\ Cardinality(ReachFrom({start})) >= 3

\* A requirement or a precondition binds a value whose tag differs from
\* the tag of the start state's value for the variable.
GoalTagMismatch ==
    \E k \in DOMAIN goal \cap DOMAIN start : goal[k].value.tag # start[k].tag

PreconditionTagMismatch ==
    \E x \in DOMAIN actions : \E p \in DOMAIN actions[x].preconditions :
        LET pre == actions[x].preconditions[p]
        IN  pre.key \in DOMAIN start /\ pre.assert.value.tag # start[pre.key].tag

\* C9: with such a tag mismatch in the goal or in a precondition, make_plan
\* fails: it returns neither a plan nor None.
C9_TagMismatchIsFatal ==
    (GoalTagMismatch \/ PreconditionTagMismatch) => pc # "done"

(***************************************************************************)
(* The functions of the engine applied on their own: the inputs are drawn  *)
(* into start, goal and actions, and call records what is returned.        *)
(***************************************************************************)
FnValues == {Bool(FALSE), Bool(TRUE), I64(0), I64(2), F64(3)}

FnStates ==
    UNION {[ks -> FnValues] : ks \in SUBSET {"a", "n"}}

FnOps ==
    {"Equals", "NotEquals", "GreaterThan", "GreaterThanEquals", "LessThan",
     "LessThanEquals"}

FnGoals ==
    UNION {[ks -> [op : FnOps, value : {Bool(TRUE), I64(2), F64(3)}]] :
               ks \in SUBSET {"a", "n"}}

FnPreconditions ==
    [key : {"a", "n"},
     assert : {Equals(Bool(TRUE)), NotEquals(I64(2)), LessThan(I64(2)),
               GreaterThanEquals(F64(3))}]

\* Actions with at most MaxPre preconditions and no Effect.
FnActions ==
    {Act("act", pre, <<>>) :
         pre \in UNION {[1..len -> FnPreconditions] : len \in 0..MaxPre}}

FnInit ==
    /\ start \in FnStates
    /\ \/ goal \in FnGoals /\ actions = <<>>
       \/ goal = EmptyGoal /\ actions \in {<<action>> : action \in FnActions}
    /\ parents = <<>>
    /\ to_see = <<>>
    /\ pc = "fn"
    /\ result = None
    /\ call = NoCall

\* is_goal and Goal::is_satisfied_by applied to the state and the goal.
CallIsGoal ==
    /\ pc = "fn"
    /\ call = NoCall
    /\ actions = <<>>
    /\ call' = [op |-> "is_goal",
                is_goal |-> is_goal(StateNode(start), goal),
                is_satisfied_by |-> is_satisfied_by(goal, start)]
    /\ UNCHANGED <<start, actions, goal, parents, to_see, pc, result>>

\* Action::check_preconditions applied to the action and the state.
CallCheckPreconditions ==
    /\ pc = "fn"
    /\ call = NoCall
    /\ actions # <<>>
    /\ call' = [op |-> "check_preconditions",
                returned |-> check_preconditions(actions[1], start)]
    /\ UNCHANGED <<start, actions, goal, parents, to_see, pc, result>>

\* The mutations apply_mutator is applied to on its own.
FnMutations ==
    {Set(k, v) : k \in {"a", "n"}, v \in FnValues}
    \cup {Delete(k) : k \in {"a", "n"}}
    \cup {Increment(k, v) : k \in {"a", "n"}, v \in FnValues}
    \cup {Decrement(k, v) : k \in {"a", "n"}, v \in FnValues}

\* The values Value::distance is applied to on its own.
DistanceValues ==
    {Bool(FALSE), Bool(TRUE), I64(I64Min), I64(-1), I64(0), I64(2),
     I64(I64Max), F64(0), F64(1), F64(3)}

\* The assertions compare_values is applied to on its own.
FnAsserts == [op : FnOps, value : FnValues]

\* apply_mutator applied to the state and a mutation.
CallApplyMutator ==
    /\ pc = "fn"
    /\ call = NoCall
    /\ actions = <<>>
    /\ goal = EmptyGoal
    /\ \E m \in FnMutations :
           call' = [op |-> "apply_mutator", mutation |-> m,
                    returned |-> apply_mutator(start, m)]
    /\ UNCHANGED <<start, actions, goal, parents, to_see, pc, result>>

\* Value::distance applied to two values in both orders, in a build with
\* or without overflow checks.
CallDistance ==
    /\ pc = "fn"
    /\ call = NoCall
    /\ actions = <<>>
    /\ goal = EmptyGoal
    /\ start = EmptyState
    /\ \E a \in DistanceValues, b \in DistanceValues, checks \in BOOLEAN :
           LET run(x, y) ==
                   IF distance_panics(x, y)
                      \/ (checks /\ distance_overflows(x, y))
                   THEN Panic(0) ELSE Ok(distance(x, y))
           IN  call' = [op |-> "distance", a |-> a, b |-> b,
                        overflow_checks |-> checks,
                        ab |-> run(a, b), ba |-> run(b, a)]
    /\ UNCHANGED <<start, actions, goal, parents, to_see, pc, result>>

\* compare_values applied to an assertion and a value; it has no panic.
CallCompareValues ==
    /\ pc = "fn"
    /\ call = NoCall
    /\ actions = <<>>
    /\ goal = EmptyGoal
    /\ start = EmptyState
    /\ \E comparison \in FnAsserts, val \in FnValues :
           call' = [op |-> "compare_values", comparison |-> comparison,
                    value |-> val,
                    returned |-> Ok(compare_values(comparison, val))]
    /\ UNCHANGED <<start, actions, goal, parents, to_see, pc, result>>

\* The mutations of the Effects Effect::apply_to is applied to on its own.
EffectMutations ==
    {Set("n", I64(2)), Set("n", Bool(TRUE)), Delete("n"),
     Increment("n", I64(2)), Decrement("n", I64(2)), Increment("n", F64(3)),
     Set("a", Bool(TRUE)), Delete("a")}

\* Effects of at most MaxMutations mutations, of cost 0 or 3.
FnEffects ==
    [mutations : UNION {[1..len -> EffectMutations] : len \in 0..MaxMutations},
     cost : {0, 3}]

\* Effect::apply_to applied to an Effect and the state.  The Effect is
\* borrowed immutably (&self): after is the Effect as the call leaves it.
CallApplyTo ==
    /\ pc = "fn"
    /\ call = NoCall
    /\ actions = <<>>
    /\ goal = EmptyGoal
    /\ \E effect \in FnEffects :
           call' = [op |-> "apply_to", effect |-> effect,
                    returned |-> apply_to(effect, start), after |-> effect]
    /\ UNCHANGED <<start, actions, goal, parents, to_see, pc, result>>

\* The states and goals heuristic is applied to on its own.
HeuristicValues ==
    {Bool(TRUE), I64(I64Min), I64(0), I64(2), I64(I64Max), F64(3)}

HeuristicStates ==
    UNION {[ks -> HeuristicValues] : ks \in SUBSET {"a", "n"}}

HeuristicGoals ==
    UNION {[ks -> [op : FnOps, value : {Bool(TRUE), I64(0), I64(2), F64(3)}]] :
               ks \in SUBSET {"a", "n"}}

\* What heuristic(node, goal) returns for a node of state ws, in a build
\* with or without overflow checks.
RunHeuristic(ws, g, checks) ==
    IF heuristic_panics(StateNode(ws), g)
       \/ (checks /\ distance_to_goal_overflows(ws, g))
    THEN Panic(0)
    ELSE Ok(heuristic(StateNode(ws), g))

\* The goals with the variables and bound values of g, whatever their
\* operators.
SameBounds(g) ==
    {h \in [DOMAIN g -> [op : FnOps, value : {g[k].value : k \in DOMAIN g}]] :
        \A k \in DOMAIN g : h[k].value = g[k].value}

\* heuristic applied to a node and a goal, and to the same node and each
\* goal with the same bound values under other operators; is_goal applied
\* to the node and the goal.
CallHeuristic ==
    /\ pc = "fn"
    /\ call = NoCall
    /\ actions = <<>>
    /\ goal = EmptyGoal
    /\ start = EmptyState
    /\ \E ws \in HeuristicStates, g \in HeuristicGoals, checks \in BOOLEAN :
           call' = [op |-> "heuristic", state |-> ws, goal |-> g,
                    overflow_checks |-> checks,
                    returned |-> RunHeuristic(ws, g, checks),
                    is_goal |-> is_goal(StateNode(ws), g),
                    others |-> {RunHeuristic(ws, h, checks) :
                                    h \in SameBounds(g)}]
    /\ UNCHANGED <<start, actions, goal, parents, to_see, pc, result>>

\* The action lists successors is applied to on its own: the lists of pool
\* actions, or the action without an Effect that was drawn, alone, after
\* and before the first action of the pool.
SuccessorLists ==
    IF actions = <<>> THEN ActionLists
    ELSE {actions, <<Pool[1]>> \o actions, actions \o <<Pool[1]>>}

\* successors applied to a node of the state and an action list, collected.
\* The node is borrowed (&Node) and its state cloned before it is mutated:
\* node_after is the node as the call leaves it.
CallSuccessors ==
    /\ pc = "fn"
    /\ call = NoCall
    /\ goal = EmptyGoal
    /\ \E acts \in SuccessorLists :
           call' = [op |-> "successors", actions |-> acts,
                    returned |-> successors(StateNode(start), acts),
                    node_after |-> StateNode(start)]
    /\ UNCHANGED <<start, actions, goal, parents, to_see, pc, result>>

FnNext ==
    \/ CallIsGoal
    \/ CallCheckPreconditions
    \/ CallApplyMutator
    \/ CallDistance
    \/ CallCompareValues
    \/ CallApplyTo
    \/ CallHeuristic
    \/ CallSuccessors

FnSpec == FnInit /\ [][FnNext]_vars

\* C8: check_preconditions panics whenever a precondition names a variable
\* absent from the state, wherever it stands in the list and whatever the
\* other preconditions evaluate to; otherwise it returns true exactly when
\* every precondition's assertion holds.
C8_PreconditionsPanic ==
    call.op = "check_preconditions" =>
        LET pre == actions[1].preconditions
        IN  IF \E p \in DOMAIN pre : pre[p].key \notin DOMAIN start
            THEN call.returned = "panic"
            ELSE call.returned =
                     (IF \A p \in DOMAIN pre :
                             compare_values(pre[p].assert, start[pre[p].key])
                      THEN "true" ELSE "false")

\* C10: is_goal and Goal::is_satisfied_by agree and are true exactly when
\* every requirement's variable is present and its assertion holds; a
\* requirement on an absent variable makes both false, whatever its kind,
\* and a goal without requirements is satisfied.
C10_GoalTest ==
    call.op = "is_goal" =>
        /\ call.is_goal = call.is_satisfied_by
        /\ call.is_goal = (\A k \in DOMAIN goal : Holds(k, goal[k], start))
        /\ (DOMAIN goal \ DOMAIN start # {}) => ~call.is_goal
        /\ (DOMAIN goal = {}) => call.is_goal

\* The goal test was false because of a NotEquals requirement on an absent
\* variable, the other requirement holding.
C10_Witness ==
    /\ call.op = "is_goal"
    /\ ~call.is_goal
    /\ ~call.is_satisfied_by
    /\ DOMAIN goal = {"a", "n"}
    /\ DOMAIN start = {"n"}
    /\ goal["a"].op = "NotEquals"
    /\ compare_values(goal["n"], start["n"])

\* C11: an Increment or a Decrement of a variable absent from the state
\* returns with the state unchanged, whatever the tag of the amount.
C11_MissingIsNoOp ==
    (/\ call.op = "apply_mutator"
     /\ call.mutation.kind \in {"Increment", "Decrement"}
     /\ call.mutation.key \notin DOMAIN start)
        => call.returned = Ok(start)

\* A Boolean amount was subtracted from a variable absent from a state that
\* holds another variable.
C11_Witness ==
    /\ call.op = "apply_mutator"
    /\ call.mutation.kind = "Decrement"
    /\ call.mutation.key \notin DOMAIN start
    /\ call.mutation.value.tag = "Bool"
    /\ DOMAIN start # {}
    /\ call.returned.status = "ok"

\* C12: Value::distance of two values of one tag is the same in both
\* orders; for Booleans it is 0 when they are equal and 1 when they are not,
\* and for equal values of any tag it is 0.
C12_DistanceSymmetric ==
    (call.op = "distance" /\ call.a.tag = call.b.tag) =>
        /\ call.ab = call.ba
        /\ call.a.tag = "Bool" =>
               call.ab = Ok(IF call.a = call.b THEN 0 ELSE 1)
        /\ ValueEq(call.a, call.b) => call.ab = Ok(0)

\* Whether two states agree on every variable other than key.
SameElsewhere(ws, after, key) ==
    /\ DOMAIN after \ {key} = DOMAIN ws \ {key}
    /\ \A k \in DOMAIN ws \ {key} : after[k] = ws[k]

\* C19: compare_values with an ordering assertion fails when the value and
\* the bound have different tags; across tags Equals is false and NotEquals
\* true; for Booleans or Integers of one tag each assertion returns
\* (value OP bound).
C19_CompareValues ==
    call.op = "compare_values" =>
        LET op == call.comparison.op
            bound == call.comparison.value
            val == call.value
        IN  IF val.tag # bound.tag
            THEN CASE op = "Equals" -> call.returned = Ok(FALSE)
                   [] op = "NotEquals" -> call.returned = Ok(TRUE)
                   [] OTHER -> call.returned.status = "panic"
            ELSE val.tag \in {"Bool", "I64"} =>
                 call.returned =
                     Ok(CASE op = "Equals" -> val.v = bound.v
                          [] op = "NotEquals" -> val.v # bound.v
                          [] op = "GreaterThan" -> val.v > bound.v
                          [] op = "GreaterThanEquals" -> val.v >= bound.v
                          [] op = "LessThan" -> val.v < bound.v
                          [] op = "LessThanEquals" -> val.v <= bound.v)

KeysOf(path) == [i \in 1..(Len(path) - 1) |-> path[i + 1].key]

\* C13: on the inputs of examples/basic.rs make_plan returns the plan
\* [buy_food, eat] with total cost 3 and the final state
\* {has_food: false, is_hungry: false}.
C13_BasicPlan ==
    (Running(BasicScenario) /\ pc # "search") =>
        /\ Returned
        /\ KeysOf(Path) = <<"buy_food", "eat">>
        /\ TotalCost = 3
        /\ Path[Len(Path)].state
               = StateOf(<<"has_food", "is_hungry">>, <<Bool(FALSE), Bool(FALSE)>>)

\* make_plan has returned on the inputs of examples/basic.rs.
C13_Witness == Running(BasicScenario) /\ pc = "done"

\* The (state, cost) pairs one valid action away from a pair of R, within
\* the budget.
CostStep(R, budget) ==
    {<<apply_to(actions[px[2]].effect[1], px[1][1]).val,
       px[1][2] + actions[px[2]].effect[1].cost>> :
         px \in {y \in R \X DOMAIN actions :
                    /\ Valid(y[2], y[1][1])
                    /\ y[1][2] + actions[y[2]].effect[1].cost <= budget}}

RECURSIVE ReachWithin(_, _)
\* The (state, cost) pairs of the valid action sequences from a pair of R
\* whose costs sum to at most the budget.
ReachWithin(R, budget) ==
    LET T == R \cup CostStep(R, budget)
    IN  IF T = R THEN R ELSE ReachWithin(T, budget)

\* C14: on the inputs of examples/long_plan.rs make_plan returns a plan,
\* and its total cost is the least sum of costs of a valid action sequence
\* from start to a state with gold == 7.
C14_LongPlan ==
    (Running(LongPlanScenario) /\ pc # "search") =>
        /\ Returned
        /\ LET R == ReachWithin({<<start, 0>>}, TotalCost)
           IN  /\ \E p \in R : Satisfies(p[1]) /\ p[2] = TotalCost
               /\ \A p \in R : Satisfies(p[1]) => p[2] >= TotalCost

\* make_plan has returned a plan of more than seven steps on the inputs of
\* examples/long_plan.rs.
C14_Witness ==
    /\ Running(LongPlanScenario)
    /\ Returned
    /\ Len(Path) > 8
    /\ TotalCost = Len(Path) - 1
    /\ Path[Len(Path)].state["gold"] = I64(7)

\* Whether an action of the list is applicable in a state: it has an
\* Effect and its preconditions hold.
Applicable(x, ws) ==
    /\ actions[x].effect # <<>>
    /\ \A p \in DOMAIN actions[x].preconditions :
           Holds(actions[x].preconditions[p].key,
                 actions[x].preconditions[p].assert, ws)

Decided(x, ws) ==
    LET pre == actions[x].preconditions
        holds(p) == Holds(pre[p].key, pre[p].assert, ws)
    IN  \/ \A p \in DOMAIN pre : holds(p)
        \/ \E p \in DOMAIN pre :
               /\ pre[p].key \in DOMAIN ws
               /\ ~holds(p)
               /\ \A q \in 1..(p - 1) : holds(q)

C16_NoEffectNoStep ==
    LET effectless == {actions[x].key : x \in {y \in DOMAIN actions :
                                                  actions[y].effect = <<>>}}
    IN  /\ \A i \in 2..Len(parents) : parents[i].node.key \notin effectless
        /\ Returned => \A i \in 2..Len(Path) : Path[i].key \notin effectless

\* A plan was returned from a list with an action without an Effect whose
\* preconditions hold in the start state.
C16_Witness ==
    /\ Returned
    /\ Len(Path) >= 2
    /\ \E x \in DOMAIN actions :
           /\ actions[x].effect = <<>>
           /\ check_preconditions(actions[x], start) = "true"

\* Whether the states reachable from start by valid actions are finitely
\* many: the reachable states within the modelled range have no valid step
\* out of it.
FinitelyManyReachable ==
    \A ws \in ReachFrom({start}) : \A x \in DOMAIN actions :
        Valid(x, ws) => StateInRange(apply_to(actions[x].effect[1], ws).val)

\* No state reachable from start by valid actions satisfies the goal.
GoalUnreachable == \A ws \in ReachFrom({start}) : ~Satisfies(ws)

RECURSIVE FoldedUpTo(_, _, _)
\* The state after the first n mutations of a list, each applied by
\* apply_mutator to the state the ones before it left; a panic ends it.
FoldedUpTo(mutations, ws, n) ==
    IF n = 0 THEN Ok(ws)
    ELSE LET before == FoldedUpTo(mutations, ws, n - 1)
         IN  IF before.status = "ok"
             THEN apply_mutator(before.val, mutations[n])
             ELSE before

\* C21: Effect::apply_to applies the mutations in list order, each to the
\* state the earlier ones left: Set then Increment gives the incremented
\* new value, Delete then Increment leaves the variable absent, Increment
\* then Set gives the set value; the Effect's cost and mutations are left
\* as they were.
C21_ApplyInOrder ==
    call.op = "apply_to" =>
        LET ms == call.effect.mutations
        IN  /\ call.returned = FoldedUpTo(ms, start, Len(ms))
            /\ ms = <<Set("n", I64(2)), Increment("n", I64(2))>>
                   => call.returned = Ok(Insert(start, "n", I64(4)))
            /\ ms = <<Delete("n"), Increment("n", I64(2))>>
                   => call.returned = Ok(Remove(start, "n"))
            /\ (ms = <<Increment("n", I64(2)), Set("n", I64(2))>>
                    /\ ("n" \in DOMAIN start => start["n"].tag = "I64"))
                   => call.returned = Ok(Insert(start, "n", I64(2)))
            /\ call.after = call.effect

\* Set then Increment was applied to a state whose variable held another
\* value: the other order would leave the set value.
C21_Witness ==
    /\ call.op = "apply_to"
    /\ call.effect.mutations = <<Set("n", I64(2)), Increment("n", I64(2))>>
    /\ "n" \in DOMAIN start
    /\ start["n"] = I64(0)
    /\ call.returned.status = "ok"
    /\ call.returned.val["n"] = I64(4)

(***************************************************************************)
(* heuristic                                                               *)
(***************************************************************************)
\* The share of variable k in the sum: Value::distance to the bound value
\* when the state has the variable, 1 when it has not, nothing when the
\* goal has no requirement on k.
Term(k, ws, g) ==
    IF k \notin DOMAIN g THEN 0
    ELSE IF k \in DOMAIN ws THEN distance(ws[k], g[k].value) ELSE 1

\* Every Value::distance the heuristic calls returns.
DistancesReturn(ws, g, checks) ==
    \A k \in DOMAIN g \cap DOMAIN ws :
        /\ ~distance_panics(ws[k], g[k].value)
        /\ ~(checks /\ distance_overflows(ws[k], g[k].value))

\* C22: the heuristic is the sum over the requirements of Value::distance
\* between the state's value and the bound value, or 1 for an absent
\* variable; it is the same under every operator with the same bound
\* values, and 0 for a goal without requirements.
C22_HeuristicIsSum ==
    call.op = "heuristic" =>
        /\ DistancesReturn(call.state, call.goal, call.overflow_checks) =>
               call.returned = Ok(Term("a", call.state, call.goal)
                                  + Term("n", call.state, call.goal))
        /\ call.others = {call.returned}
        /\ call.goal = EmptyGoal => call.returned = Ok(0)

(***************************************************************************)
(* successors                                                              *)
(***************************************************************************)
\* Whether an action has an Effect and its preconditions hold in a state.
Emits(action, ws) ==
    /\ action.effect # <<>>
    /\ \A p \in DOMAIN action.preconditions :
           Holds(action.preconditions[p].key, action.preconditions[p].assert,
                 ws)

\* C23: successors returns one transition per action of the list that has
\* an Effect and whose preconditions hold in the node's state, in the order
\* of the list; each transition carries the action's key, its Effect, the
\* state Effect::apply_to gives on the node's state, and the Effect's cost
\* as edge cost; the node's state is left as it was.
C23_Successors ==
    (call.op = "successors" /\ call.returned.status = "ok") =>
        LET acts == call.actions
            out == call.returned.val
            emitting == Ascending({x \in DOMAIN acts : Emits(acts[x], start)})
        IN  /\ Len(out) = Len(emitting)
            /\ \A i \in DOMAIN emitting :
                   LET action == acts[emitting[i]]
                       effect == action.effect[1]
                   IN  /\ out[i].node.kind = "Effect"
                       /\ out[i].node.key = action.key
                       /\ out[i].node.effect = effect
                       /\ Ok(out[i].node.state) = apply_to(effect, start)
                       /\ out[i].cost = effect.cost
            /\ call.node_after = StateNode(start)

\* Several transitions were returned, from a list given in the reverse of
\* the pool's order that also holds an action without an Effect and an
\* action whose preconditions are false.
C23_Witness ==
    /\ call.op = "successors"
    /\ call.returned.status = "ok"
    /\ Len(call.returned.val) >= 2
    /\ call.returned.val[1].node.key = "dec"
    /\ call.returned.val[2].node.key = "set_a"
    /\ \E x \in DOMAIN call.actions : call.actions[x].effect = <<>>
    /\ \E x \in DOMAIN call.actions :
           /\ call.actions[x].effect # <<>>
           /\ check_preconditions(call.actions[x], start) = "false"

(***************************************************************************)
(* Node identity                                                           *)
(***************************************************************************)
\* The step is a turn of the loop that expands the popped node.
Expanding ==
    /\ pc = "search"
    /\ pc' = "search"
    /\ to_see # <<>>
    /\ ~(HeapPop(to_see).item.cost
             > parents[HeapPop(to_see).item.index].cost)

C25_DistanceExact ==
    (call.op = "distance" /\ call.a.tag = "I64" /\ call.b.tag = "I64") =>
        call.ab = Ok(Abs(call.a.v - call.b.v))

(***************************************************************************)
(* Returned paths and world states                                         *)
(***************************************************************************)
\* C26: no world state stands at two positions of a returned path, the
\* start state included, whatever the actions that lead to it.
C26_NoStateTwice ==
    Returned =>
        \A i, j \in DOMAIN Path : i < j => Path[i].state # Path[j].state

\* A plan of several steps was returned by a search that also reached the
\* state of one of the plan's nodes through a node that is not in the plan,
\* and from which the plan's next node is one transition away at no higher
\* cost.
C26_Witness ==
    /\ Returned
    /\ Len(Path) >= 3
    /\ \E p \in 1..(Len(Path) - 1), i \in DOMAIN parents :
           /\ parents[i].node.state = Path[p].state
           /\ \A q \in DOMAIN Path : Path[q] # parents[i].node
           /\ parents[i].cost + Path[p + 1].effect.cost
                  <= parents[IndexOf(parents, Path[p + 1])].cost

(***************************************************************************)
(* A start state that satisfies the goal                                   *)
(***************************************************************************)
\* C27: when the start state satisfies the goal (a goal without
\* requirements included), the search evaluates no action and does not
\* fail: its first turn returns, and what make_plan returns is the path of
\* the State node of start alone with total cost 0, from which
\* get_effects_from_plan extracts no step.
C27_StartIsGoal ==
    Satisfies(start) =>
        /\ pc \in {"search", "done"}
        /\ Len(parents) = 1
        /\ pc = "search" =>
               /\ to_see = <<[estimated_cost |-> 0, cost |-> 0, index |-> 1]>>
               /\ ENABLED Success
        /\ pc = "done" =>
               /\ result = <<[path |-> <<StateNode(start)>>, cost |-> 0]>>
               /\ get_effects_from_plan(Path) = <<>>

\* The plan of the start node alone was returned for a goal with a
\* requirement, with an action in the list whose evaluation in the start
\* state would panic and another that would give a transition.
C27_Witness ==
    /\ Returned
    /\ Satisfies(start)
    /\ DOMAIN goal # {}
    /\ Len(Path) = 1
    /\ \E x \in DOMAIN actions :
           successor_of(start, actions[x]).status = "panic"
    /\ \E x \in DOMAIN actions :
           successor_of(start, actions[x]) \notin {Ok(<<>>), Panic(<<>>)}

(***************************************************************************)
(* Well-typed inputs                                                       *)
(***************************************************************************)
\* Every variable named by a precondition, a mutation or a requirement is
\* in start, every value attached to it has the tag of its start value, no
\* mutation is a Delete, and no Increment or Decrement is on a Boolean.
WellTyped ==
    /\ \A k \in DOMAIN goal :
           k \in DOMAIN start /\ goal[k].value.tag = start[k].tag
    /\ \A x \in DOMAIN actions :
           /\ \A p \in DOMAIN actions[x].preconditions :
                  LET pre == actions[x].preconditions[p]
                  IN  /\ pre.key \in DOMAIN start
                      /\ pre.assert.value.tag = start[pre.key].tag
           /\ actions[x].effect # <<>> =>
                  \A i \in DOMAIN actions[x].effect[1].mutations :
                      LET m == actions[x].effect[1].mutations[i]
                      IN  /\ m.kind # "Delete"
                          /\ m.key \in DOMAIN start
                          /\ m.value.tag = start[m.key].tag
                          /\ m.kind \in {"Increment", "Decrement"}
                                 => start[m.key].tag # "Bool"

\* C28: on well-typed inputs make_plan does not panic, and every state the
\* search reaches has the variables of start, each with the tag it has in
\* start.
C28_WellTypedNoPanic ==
    (pc # "fn" /\ WellTyped) =>
        /\ pc # "panic"
        /\ {i \in DOMAIN parents :
                \/ DOMAIN parents[i].node.state # DOMAIN start
                \/ \E k \in DOMAIN start :
                       parents[i].node.state[k].tag # start[k].tag} = {}

\* A plan of several steps was returned on well-typed inputs with a Set, an
\* Increment, a precondition and a goal requirement.
C28_Witness ==
    /\ WellTyped
    /\ Returned
    /\ Len(Path) >= 3
    /\ DOMAIN goal # {}
    /\ \E i, j \in 2..Len(Path) :
           /\ \E x \in DOMAIN Path[i].effect.mutations :
                  Path[i].effect.mutations[x].kind = "Increment"
           /\ \E x \in DOMAIN Path[j].effect.mutations :
                  Path[j].effect.mutations[x].kind = "Set"
    /\ \E x \in DOMAIN actions : actions[x].preconditions # <<>>

(***************************************************************************)
(* heuristic and is_goal                                                   *)
(***************************************************************************)
\* The requirements are Equals assertions on Boolean or Integer values, and
\* the state's values for their variables have the tags of those values.
EqualsGoalOfMatchingTags(ws, g) ==
    \A k \in DOMAIN g :
        /\ g[k].op = "Equals"
        /\ g[k].value.tag \in {"Bool", "I64"}
        /\ k \in DOMAIN ws => ws[k].tag = g[k].value.tag

\* C29: for such a goal and state, the heuristic returns 0 exactly when
\* the state satisfies the goal.
C29_ZeroIffGoal ==
    (call.op = "heuristic" /\ EqualsGoalOfMatchingTags(call.state, call.goal))
        =>
        /\ call.returned.status = "ok"
        /\ (call.returned.val = 0) <=> call.is_goal

(***************************************************************************)
(* Preconditions of actions without an Effect                              *)
(***************************************************************************)
\* An action of the list has no Effect and a precondition on a variable
\* that the state lacks.
EffectlessNamesAbsent(acts, ws) ==
    \E x \in DOMAIN acts :
        /\ acts[x].effect = <<>>
        /\ \E p \in DOMAIN acts[x].preconditions :
               acts[x].preconditions[p].key \notin DOMAIN ws

\* C30: successors evaluates the preconditions of an action without an
\* Effect as well: when the state lacks a variable that a precondition of
\* such an action names, the expansion panics instead of skipping the
\* action.
C30_EffectlessPreconditions ==
    (call.op = "successors" /\ EffectlessNamesAbsent(call.actions, start))
        => call.returned.status = "panic"

====
